---- MODULE Spec2Model ----
(***************************************************************************)
(* RISC-V (RV32I subset) simulator of Victor-Aguele_Andrew-Woo.py:         *)
(* Fetch / Decode / ControlUnit / Execute / Mem / Writeback, the           *)
(* single-cycle loop of main() and the clock loop of run_pipelined().      *)
(***************************************************************************)
EXTENDS Integers, Sequences, FiniteSets, TLC

\* ------------------------------------------------------------------------
\* Bounds of the model
\* ------------------------------------------------------------------------
\* longest program drawn from the instruction pool
MaxLen == 2
\* cap on total_clock_cycles (programs may loop for ever)
MaxCycles == 14

\* ------------------------------------------------------------------------
\* Python values
\* ------------------------------------------------------------------------
None == "None"
\* a failed dict lookup (the name a table lookup could not produce)
NoKey == "KeyError"
\* an exception propagating out of a call
KeyError == [exception |-> "KeyError"]

Raised(v) == "exception" \in DOMAIN v

Pow2(n) == 2 ^ n

\* int(bits, 2) on a string of '0'/'1' characters, most significant first
RECURSIVE BinToInt(_)
BinToInt(bits) ==
    IF Len(bits) = 0 THEN 0
    ELSE 2 * BinToInt(SubSeq(bits, 1, Len(bits) - 1)) + bits[Len(bits)]

\* Python's a & b and a | b on unbounded two's-complement integers
RECURSIVE BitAnd(_, _)
BitAnd(a, b) ==
    IF a = 0 \/ b = 0 THEN 0
    ELSE IF a = -1 THEN b
    ELSE IF b = -1 THEN a
    ELSE (a % 2) * (b % 2) + 2 * BitAnd(a \div 2, b \div 2)

RECURSIVE BitOr(_, _)
BitOr(a, b) ==
    IF a = 0 THEN b
    ELSE IF b = 0 THEN a
    ELSE IF a = -1 \/ b = -1 THEN -1
    ELSE (IF a % 2 = 1 \/ b % 2 = 1 THEN 1 ELSE 0) + 2 * BitOr(a \div 2, b \div 2)

\* machineCode[a:b] of Python is SubSeq(machineCode, a + 1, b)
Slice(s, a, b) == SubSeq(s, a + 1, b)

\* ------------------------------------------------------------------------
\* Decode
\* ------------------------------------------------------------------------
\* sign_extend without the subtraction for a leading 1
sign_extend_Unsigned(binary_string, num_bits) == BinToInt(binary_string)

sign_extend(binary_string, num_bits) ==
    BinToInt(binary_string)
    - (IF binary_string[1] = 1 THEN Pow2(num_bits) ELSE 0)

OpcodeType(opcode) ==
        CASE opcode = <<0,1,1,0,0,1,1>> -> "R"
          [] opcode = <<0,0,0,0,0,1,1>> -> "I"
          [] opcode = <<0,0,1,0,0,1,1>> -> "I"
          [] opcode = <<1,1,0,0,1,1,1>> -> "I"
          [] opcode = <<0,1,0,0,0,1,1>> -> "S"
          [] opcode = <<1,1,0,0,0,1,1>> -> "SB"
          [] opcode = <<1,1,0,1,1,1,1>> -> "UJ"
          [] OTHER -> NoKey

determineInstructionType(machineCode) ==
    OpcodeType(Slice(machineCode, 25, 32))

MnemonicOf(type, opcode, funct3, funct_3_7) ==
        IF type = "R" THEN
            CASE funct_3_7 = <<0,0,0,0,0,0,0,0,0,0>> -> "add"
              [] funct_3_7 = <<0,0,0,0,1,0,0,0,0,0>> -> "sub"
              [] funct_3_7 = <<0,0,1,0,0,0,0,0,0,0>> -> "sll"
              [] funct_3_7 = <<0,1,0,0,0,0,0,0,0,0>> -> "slt"
              [] funct_3_7 = <<0,1,1,0,0,0,0,0,0,0>> -> "sltu"
              [] funct_3_7 = <<1,0,0,0,0,0,0,0,0,0>> -> "xor"
              [] funct_3_7 = <<1,0,1,0,0,0,0,0,0,0>> -> "srl"
              [] funct_3_7 = <<1,0,1,0,1,0,0,0,0,0>> -> "sra"
              [] funct_3_7 = <<1,1,0,0,0,0,0,0,0,0>> -> "or"
              [] funct_3_7 = <<1,1,1,0,0,0,0,0,0,0>> -> "and"
              [] OTHER -> NoKey
        ELSE IF type = "I" /\ opcode = <<0,0,0,0,0,1,1>> THEN
            CASE funct3 = <<0,0,0>> -> "lb"
              [] funct3 = <<0,0,1>> -> "lh"
              [] funct3 = <<0,1,0>> -> "lw"
              [] OTHER -> NoKey
        ELSE IF type = "I" /\ opcode = <<0,0,1,0,0,1,1>> THEN
            CASE funct3 = <<0,0,0>> -> "addi"
              [] funct3 = <<0,0,1>> -> "slli"
              [] funct3 = <<0,1,0>> -> "slti"
              [] funct3 = <<0,1,1>> -> "sltiu"
              [] funct3 = <<1,0,0>> -> "xori"
              [] funct3 = <<1,1,0>> -> "ori"
              [] funct3 = <<1,1,1>> -> "andi"
              [] OTHER -> NoKey
        ELSE IF type = "I" /\ opcode = <<1,1,0,0,1,1,1>> THEN "jalr"
        ELSE IF type = "S" THEN
            CASE funct3 = <<0,0,0>> -> "sb"
              [] funct3 = <<0,0,1>> -> "sh"
              [] funct3 = <<0,1,0>> -> "sw"
              [] funct3 = <<0,1,1>> -> "sd"
              [] OTHER -> NoKey
        ELSE IF type = "SB" THEN
            CASE funct3 = <<0,0,0>> -> "beq"
              [] funct3 = <<0,0,1>> -> "bne"
              [] funct3 = <<1,0,0>> -> "blt"
              [] funct3 = <<1,0,1>> -> "bge"
              [] OTHER -> NoKey
        ELSE "jal"

determineMnemonic(machineCode, type) ==
    MnemonicOf(type, Slice(machineCode, 25, 32), Slice(machineCode, 17, 20),
               Slice(machineCode, 17, 20) \o Slice(machineCode, 0, 7))

\* DecodeFields with the SB immediate assembled without its trailing zero
DecodeFields_NoTrailingZero(machineCode, type, mnemonic) ==
    IF type = "R" THEN
        [type |-> type, mnemonic |-> mnemonic,
         rs1 |-> BinToInt(Slice(machineCode, 12, 17)),
         rs2 |-> BinToInt(Slice(machineCode, 7, 12)),
         rd |-> BinToInt(Slice(machineCode, 20, 25)), imm |-> None]
    ELSE IF type = "I" THEN
        [type |-> type, mnemonic |-> mnemonic,
         rs1 |-> BinToInt(Slice(machineCode, 12, 17)),
         rd |-> BinToInt(Slice(machineCode, 20, 25)),
         imm |-> sign_extend(Slice(machineCode, 0, 12), 12)]
    ELSE IF type = "S" THEN
        [type |-> type, mnemonic |-> mnemonic,
         rs1 |-> BinToInt(Slice(machineCode, 12, 17)),
         rs2 |-> BinToInt(Slice(machineCode, 7, 12)),
         imm |-> sign_extend(Slice(machineCode, 0, 7)
                             \o Slice(machineCode, 20, 25), 12)]
    ELSE IF type = "SB" THEN
        [type |-> type, mnemonic |-> mnemonic,
         rs1 |-> BinToInt(Slice(machineCode, 12, 17)),
         rs2 |-> BinToInt(Slice(machineCode, 7, 12)),
         imm |-> sign_extend(<<machineCode[1]>> \o <<machineCode[25]>>
                             \o Slice(machineCode, 1, 7)
                             \o Slice(machineCode, 20, 24), 12)]
    ELSE
        [type |-> type, mnemonic |-> mnemonic,
         rd |-> BinToInt(Slice(machineCode, 20, 25)),
         imm |-> sign_extend(<<machineCode[1]>>
                             \o Slice(machineCode, 12, 20)
                             \o <<machineCode[12]>>
                             \o Slice(machineCode, 1, 11) \o <<0>>, 21)]

\* the operand fields of the decoded dict, by format; a key the Python dict
\* lacks is a field the record lacks
DecodeFields(machineCode, type, mnemonic) ==
    IF type = "R" THEN
        [type |-> type, mnemonic |-> mnemonic,
         rs1 |-> BinToInt(Slice(machineCode, 12, 17)),
         rs2 |-> BinToInt(Slice(machineCode, 7, 12)),
         rd |-> BinToInt(Slice(machineCode, 20, 25)), imm |-> None]
    ELSE IF type = "I" THEN
        [type |-> type, mnemonic |-> mnemonic,
         rs1 |-> BinToInt(Slice(machineCode, 12, 17)),
         rd |-> BinToInt(Slice(machineCode, 20, 25)),
         imm |-> sign_extend(Slice(machineCode, 0, 12), 12)]
    ELSE IF type = "S" THEN
        [type |-> type, mnemonic |-> mnemonic,
         rs1 |-> BinToInt(Slice(machineCode, 12, 17)),
         rs2 |-> BinToInt(Slice(machineCode, 7, 12)),
         imm |-> sign_extend(Slice(machineCode, 0, 7)
                             \o Slice(machineCode, 20, 25), 12)]
    ELSE IF type = "SB" THEN
        [type |-> type, mnemonic |-> mnemonic,
         rs1 |-> BinToInt(Slice(machineCode, 12, 17)),
         rs2 |-> BinToInt(Slice(machineCode, 7, 12)),
         imm |-> sign_extend(<<machineCode[1]>> \o <<machineCode[25]>>
                             \o Slice(machineCode, 1, 7)
                             \o Slice(machineCode, 20, 24) \o <<0>>, 13)]
    ELSE
        [type |-> type, mnemonic |-> mnemonic,
         rd |-> BinToInt(Slice(machineCode, 20, 25)),
         imm |-> sign_extend(<<machineCode[1]>>
                             \o Slice(machineCode, 12, 20)
                             \o <<machineCode[12]>>
                             \o Slice(machineCode, 1, 11) \o <<0>>, 21)]

\* Decode once the mnemonic table has been consulted
DecodeMnemonic(machineCode, type, mnemonic) ==
    IF mnemonic = NoKey THEN KeyError
    ELSE DecodeFields(machineCode, type, mnemonic)

\* Decode once the opcode table has been consulted
DecodeType(machineCode, type) ==
    IF type = NoKey THEN KeyError
    ELSE DecodeMnemonic(machineCode, type, determineMnemonic(machineCode, type))

Decode(instruction) ==
    DecodeType(instruction, determineInstructionType(instruction))

\* ------------------------------------------------------------------------
\* Control unit and ALU
\* ------------------------------------------------------------------------
\* the signals dict; "ALUControl" is a key only the supported mnemonics set
ControlUnit(decoded) ==
    LET mnemonic == decoded.mnemonic
    IN  IF mnemonic = "lw" THEN
            [RegWrite |-> 1, MemRead |-> 1, MemWrite |-> 0, ALUSrc |-> 1,
             Branch |-> 0, MemToReg |-> 1, ALUControl |-> "add"]
        ELSE IF mnemonic = "sw" THEN
            [RegWrite |-> 0, MemRead |-> 0, MemWrite |-> 1, ALUSrc |-> 1,
             Branch |-> 0, MemToReg |-> 0, ALUControl |-> "add"]
        ELSE IF mnemonic \in {"add", "sub", "and", "or"} THEN
            [RegWrite |-> 1, MemRead |-> 0, MemWrite |-> 0, ALUSrc |-> 0,
             Branch |-> 0, MemToReg |-> 0, ALUControl |-> mnemonic]
        ELSE IF mnemonic \in {"addi", "andi", "ori"} THEN
            [RegWrite |-> 1, MemRead |-> 0, MemWrite |-> 0, ALUSrc |-> 1,
             Branch |-> 0, MemToReg |-> 0,
             ALUControl |-> IF mnemonic = "addi" THEN "add"
                            ELSE IF mnemonic = "andi" THEN "and" ELSE "or"]
        ELSE IF mnemonic = "beq" THEN
            [RegWrite |-> 0, MemRead |-> 0, MemWrite |-> 0, ALUSrc |-> 0,
             Branch |-> 1, MemToReg |-> 0, ALUControl |-> "sub"]
        ELSE IF mnemonic = "jal" THEN
            [RegWrite |-> 1, MemRead |-> 0, MemWrite |-> 0, ALUSrc |-> 1,
             Branch |-> 1, MemToReg |-> 0, ALUControl |-> "add"]
        ELSE IF mnemonic = "jalr" THEN
            [RegWrite |-> 1, MemRead |-> 0, MemWrite |-> 0, ALUSrc |-> 1,
             Branch |-> 0, MemToReg |-> 0, ALUControl |-> "add"]
        ELSE
            \* print("ControlUnit: Unsupported instruction"); the defaults
            [RegWrite |-> 0, MemRead |-> 0, MemWrite |-> 0, ALUSrc |-> 0,
             Branch |-> 0, MemToReg |-> 0]

ALU(op, operand1, operand2) ==
    IF op = "add" THEN operand1 + operand2
    ELSE IF op = "sub" THEN operand1 - operand2
    ELSE IF op = "and" THEN BitAnd(operand1, operand2)
    ELSE IF op = "or" THEN BitOr(operand1, operand2)
    ELSE 0

\* ------------------------------------------------------------------------
\* The stages.  g is the record of the module's global variables; a stage
\* returns the globals it leaves behind together with its return value, or
\* the exception it raises.
\* ------------------------------------------------------------------------
\* program[i] with Python's indexing: a negative i counts from the end
PyInRange(program, i) == -Len(program) <= i /\ i < Len(program)
PyIndex(program, i) ==
    IF i >= 0 THEN program[i + 1] ELSE program[Len(program) + i + 1]

Fetch(g, program) ==
    LET g1 == [g EXCEPT !.current_instr_pc = g.pc, !.next_pc = g.pc + 4]
    IN  IF ~PyInRange(program, g.pc \div 4)
        THEN [exception |-> "IndexError", g |-> g1]
        ELSE [g |-> [g1 EXCEPT !.pc = g1.next_pc],
              instruction |-> PyIndex(program, g.pc \div 4)]

\* a beq target that leaves out the shift of the immediate
BranchTarget_NoShift(g, decoded) == (g.current_instr_pc + 4) + decoded.imm
\* the target of a taken beq
BranchTarget(g, decoded) == (g.current_instr_pc + 4) + (decoded.imm * 2)

\* Execute from the ALU result on: the zero flag and the branch
ExecuteBranch(g, decoded, signals, alu_result) ==
    IF signals.Branch = 1 /\ alu_result = 0
    THEN [g |-> [g EXCEPT !.alu_zero = 1,
                          !.branch_target = BranchTarget(g, decoded),
                          !.pc = BranchTarget(g, decoded)],
          alu_result |-> alu_result]
    ELSE [g |-> [g EXCEPT !.alu_zero = IF alu_result = 0 THEN 1 ELSE 0],
          alu_result |-> alu_result]

\* a jalr target that keeps bit 0
ClearBit0_Keep(sum) == sum
\* (base + imm) & ~1
ClearBit0(sum) == sum - (sum % 2)

\* pc = branch_target = target; return None
Jump(g, target) ==
    [g |-> [g EXCEPT !.branch_target = target, !.pc = target],
     alu_result |-> None]

Execute(g, decoded, signals) ==
    IF decoded.mnemonic = "jal" THEN
        Jump(g, g.current_instr_pc + decoded.imm)
    ELSE IF decoded.mnemonic = "jalr" THEN
        Jump(g, ClearBit0(g.rf[decoded.rs1] + decoded.imm))
    ELSE IF "ALUControl" \notin DOMAIN signals THEN
        [exception |-> "KeyError", g |-> g]
    ELSE
        ExecuteBranch(g, decoded, signals,
            ALU(signals.ALUControl,
                IF "rs1" \in DOMAIN decoded THEN g.rf[decoded.rs1] ELSE 0,
                IF signals.ALUSrc = 1 THEN decoded.imm
                ELSE IF "rs2" \in DOMAIN decoded THEN g.rf[decoded.rs2]
                ELSE 0))

MemSize == 32

\* a data memory that wraps an index around instead of checking its bounds
Mem_Wrap(g, alu_result, decoded, signals) ==
    IF signals.MemRead = 1 THEN
        [g |-> g, data |-> g.d_mem[(alu_result \div 4) % MemSize]]
    ELSE IF signals.MemWrite = 1 THEN
        [g |-> [g EXCEPT !.d_mem[(alu_result \div 4) % MemSize] =
                             g.rf[decoded.rs2]],
         data |-> None]
    ELSE [g |-> g, data |-> None]

Mem(g, alu_result, decoded, signals) ==
    IF signals.MemRead = 1 THEN
        IF 0 <= alu_result \div 4 /\ alu_result \div 4 < MemSize
        THEN [g |-> g, data |-> g.d_mem[alu_result \div 4]]
        ELSE [g |-> g, data |-> 0]
    ELSE IF signals.MemWrite = 1 THEN
        IF 0 <= alu_result \div 4 /\ alu_result \div 4 < MemSize
        THEN [g |-> [g EXCEPT !.d_mem[alu_result \div 4] = g.rf[decoded.rs2]],
              data |-> None]
        ELSE [g |-> g, data |-> None]
    ELSE [g |-> g, data |-> None]

\* one line of the printed report: "<target> is modified to <value>"
RegMod(rd, val) == [kind |-> "reg", at |-> rd, value |-> val]
MemMod(addr, val) == [kind |-> "memory", at |-> addr, value |-> val]
PcMod(val) == [kind |-> "pc", at |-> 0, value |-> val]

\* a write-back that accepts register 0 as a destination
WritableRd_AnyRd(decoded) == "rd" \in DOMAIN decoded
\* decoded.get("rd") not in (None, 0)
WritableRd(decoded) == "rd" \in DOMAIN decoded /\ decoded.rd # 0

\* a write-back that takes the ALU result whatever MemToReg says
WriteValue_AluOnly(signals, alu_result, mem_data) == alu_result
\* mem_data if signals.get("MemToReg", 0) else alu_result
WriteValue(signals, alu_result, mem_data) ==
    IF signals.MemToReg = 1 THEN mem_data ELSE alu_result

\* a counter that is never advanced
Tick_Forgotten(g) == g
\* total_clock_cycles += 1
Tick(g) == [g EXCEPT !.total_clock_cycles = g.total_clock_cycles + 1]

\* the register write of a write-back: rf[rd] = val, and its report line
WriteReg(g, write, rd, val) ==
    IF write
    THEN [g |-> [g EXCEPT !.rf[rd] = val], modifications |-> <<RegMod(rd, val)>>]
    ELSE [g |-> g, modifications |-> <<>>]

\* a store that takes the byte address for the word index
WriteMem_ByteIndex(w, store, alu_result, rs2) ==
    IF store
    THEN [g |-> [w.g EXCEPT !.d_mem[alu_result] = w.g.rf[rs2]],
          modifications |-> w.modifications
                            \o <<MemMod(alu_result, w.g.rf[rs2])>>]
    ELSE w

\* the store of the single-cycle write-back, after the register write w
WriteMem(w, store, alu_result, rs2) ==
    IF store
    THEN [g |-> [w.g EXCEPT !.d_mem[alu_result \div 4] = w.g.rf[rs2]],
          modifications |-> w.modifications
                            \o <<MemMod(alu_result, w.g.rf[rs2])>>]
    ELSE w

\* "always report PC"
ReportPc(w) ==
    [g |-> w.g, modifications |-> Append(w.modifications, PcMod(w.g.pc))]

\* rd, when the decoded dict has one
RdOf(decoded) == IF "rd" \in DOMAIN decoded THEN decoded.rd ELSE 0
\* rs2, when the decoded dict has one
Rs2Of(decoded) == IF "rs2" \in DOMAIN decoded THEN decoded.rs2 ELSE 0

InBounds(alu_result) == 0 <= alu_result \div 4 /\ alu_result \div 4 < MemSize

WritebackBody(g0, decoded, signals, alu_result, mem_data) ==
    IF decoded.mnemonic \in {"jal", "jalr"} THEN
        ReportPc(WriteReg(g0, WritableRd(decoded), RdOf(decoded),
                          g0.current_instr_pc + 4))
    ELSE
        ReportPc(
            WriteMem(WriteReg(g0, signals.RegWrite = 1 /\ WritableRd(decoded),
                              RdOf(decoded),
                              WriteValue(signals, alu_result, mem_data)),
                     signals.MemWrite = 1 /\ InBounds(alu_result),
                     alu_result, Rs2Of(decoded)))

Writeback(g, decoded, signals, alu_result, mem_data) ==
    WritebackBody(Tick(g), decoded, signals, alu_result, mem_data)

pipeline_Writeback(g, decoded, signals, alu_res, mem_data) ==
    IF decoded.mnemonic \in {"jal", "jalr"} THEN
        ReportPc(WriteReg(g, WritableRd(decoded), RdOf(decoded),
                          g.current_instr_pc + 4))
    ELSE IF signals.RegWrite = 1 THEN
        ReportPc(WriteReg(g, WritableRd(decoded), RdOf(decoded),
                          WriteValue(signals, alu_res, mem_data)))
    ELSE ReportPc([g |-> g, modifications |-> <<>>])

\* ------------------------------------------------------------------------
\* The loop bodies
\* ------------------------------------------------------------------------
\* the iteration of main() from the Writeback call on
SingleWriteback(w) ==
    [status |-> "ok", g |-> w.g, modifications |-> w.modifications]

\* the iteration of main() from the Mem call on
SingleMem(e, decoded, signals) ==
    IF Raised(e) THEN [status |-> "crashed", g |-> e.g]
    ELSE SingleWriteback(
             Writeback(Mem(e.g, e.alu_result, decoded, signals).g,
                       decoded, signals, e.alu_result,
                       Mem(e.g, e.alu_result, decoded, signals).data))

\* the iteration of main() from the ControlUnit call on
SingleControl(g, decoded) ==
    IF Raised(decoded) THEN [status |-> "crashed", g |-> g]
    ELSE SingleMem(Execute(g, decoded, ControlUnit(decoded)),
                   decoded, ControlUnit(decoded))

\* the iteration of main() from the Decode call on
SingleDecode(f) ==
    IF Raised(f) THEN [status |-> "crashed", g |-> f.g]
    ELSE SingleControl(f.g, Decode(f.instruction))

\* one iteration of the while loop of main()
SingleIteration(g, program) == SingleDecode(Fetch(g, program))

\* the while loop of main() run to its end, for at most n iterations
RECURSIVE RunSingle(_, _, _), RunNext(_, _, _)
RunSingle(g, program, n) ==
    IF ~(g.pc \div 4 < Len(program)) THEN [status |-> "done", g |-> g]
    ELSE IF n = 0 THEN [status |-> "timeout", g |-> g]
    ELSE RunNext(SingleIteration(g, program), program, n)

RunNext(r, program, n) ==
    IF r.status = "crashed" THEN [status |-> "crashed", g |-> r.g]
    ELSE RunSingle(r.g, program, n - 1)

NopIfId  == [nop |-> TRUE, instr |-> None, pc |-> 0]
NopIdEx  == [nop |-> TRUE, decoded |-> None, signals |-> None, pc |-> 0]
NopExMem == [nop |-> TRUE, alu_res |-> None, decoded |-> None,
             signals |-> None, pc |-> 0]
NopMemWb == [nop |-> TRUE, alu_res |-> None, mem_data |-> None,
             decoded |-> None, signals |-> None, pc |-> 0]

\* a hazard test that looks at MemWrite where the code looks at MemRead
LoadUse_MemWrite(l_if_id, l_id_ex, decoded_if) ==
    /\ ~l_id_ex.nop
    /\ l_id_ex.signals.MemWrite = 1
    /\ ~l_if_id.nop
    /\ "rd" \in DOMAIN l_id_ex.decoded
    /\ \/ "rs1" \in DOMAIN decoded_if /\ decoded_if.rs1 = l_id_ex.decoded.rd
       \/ "rs2" \in DOMAIN decoded_if /\ decoded_if.rs2 = l_id_ex.decoded.rd

\* a hazard test that compares only rs1 with the load's rd
LoadUse_Rs1Only(l_if_id, l_id_ex, decoded_if) ==
    /\ ~l_id_ex.nop
    /\ l_id_ex.signals.MemRead = 1
    /\ ~l_if_id.nop
    /\ "rd" \in DOMAIN l_id_ex.decoded
    /\ "rs1" \in DOMAIN decoded_if /\ decoded_if.rs1 = l_id_ex.decoded.rd

\* the load-use test of run_pipelined, on the latches at the start of a tick
LoadUse(l_if_id, l_id_ex, decoded_if) ==
    /\ ~l_id_ex.nop
    /\ l_id_ex.signals.MemRead = 1
    /\ ~l_if_id.nop
    /\ "rd" \in DOMAIN l_id_ex.decoded
    /\ \/ "rs1" \in DOMAIN decoded_if /\ decoded_if.rs1 = l_id_ex.decoded.rd
       \/ "rs2" \in DOMAIN decoded_if /\ decoded_if.rs2 = l_id_ex.decoded.rd

\* a loop condition that forgets the MEM/WB latch
PipeBusy_NoMemWb(g, L, program) ==
    ~(L.if_id.nop /\ L.id_ex.nop /\ L.ex_mem.nop
      /\ g.pc \div 4 >= Len(program))

\* loop condition of run_pipelined
PipeBusy(g, L, program) ==
    ~(L.if_id.nop /\ L.id_ex.nop /\ L.ex_mem.nop /\ L.mem_wb.nop
      /\ g.pc \div 4 >= Len(program))

\* a tick that ends in an exception: the globals as they are, the latches
\* as they were
PipeCrash(g, L, mods) ==
    [status |-> "crashed", g |-> g, L |-> L, stall |-> FALSE,
     fetched |-> FALSE, retired |-> ~L.mem_wb.nop, modifications |-> mods]

\* an end of tick that loses the instruction leaving the Memory stage
PipeAdvance_DropsMemWb(g, L, mods, next_if_id, next_id_ex, next_ex_mem, next_mem_wb, isStall, didFetch) ==
    [status |-> "ok", g |-> g,
     L |-> [if_id |-> next_if_id, id_ex |-> next_id_ex,
            ex_mem |-> next_ex_mem, mem_wb |-> NopMemWb],
     stall |-> isStall, fetched |-> didFetch, retired |-> ~L.mem_wb.nop,
     modifications |-> mods]

\* the end of a tick: the four latches advance
PipeAdvance(g, L, mods, next_if_id, next_id_ex, next_ex_mem, next_mem_wb, isStall, didFetch) ==
    [status |-> "ok", g |-> g,
     L |-> [if_id |-> next_if_id, id_ex |-> next_id_ex,
            ex_mem |-> next_ex_mem, mem_wb |-> next_mem_wb],
     stall |-> isStall, fetched |-> didFetch, retired |-> ~L.mem_wb.nop,
     modifications |-> mods]

\* the tick after Fetch has returned f
PipeFetched(f, L, mods, next_id_ex, next_ex_mem, next_mem_wb) ==
    IF Raised(f) THEN PipeCrash(f.g, L, mods)
    ELSE PipeAdvance([f.g EXCEPT !.pc = f.g.next_pc], L, mods,
                     [nop |-> FALSE, instr |-> f.instruction,
                      pc |-> f.g.current_instr_pc],
                     next_id_ex, next_ex_mem, next_mem_wb, FALSE, TRUE)

\* a stall that empties IF/ID instead of holding it
PipeFetch_DropOnStall(g, L, program, mods, isStall, next_id_ex, next_ex_mem, next_mem_wb) ==
    IF isStall THEN
        PipeAdvance(g, L, mods, NopIfId, NopIdEx, next_ex_mem, next_mem_wb,
                    TRUE, FALSE)
    ELSE IF g.pc \div 4 < Len(program) THEN
        PipeFetched(Fetch(g, program), L, mods, next_id_ex, next_ex_mem,
                    next_mem_wb)
    ELSE
        PipeAdvance(g, L, mods, NopIfId, next_id_ex, next_ex_mem,
                    next_mem_wb, FALSE, FALSE)

\* the tick from "Prepare next ID/EX and IF/ID" on
PipeFetch(g, L, program, mods, isStall, next_id_ex, next_ex_mem, next_mem_wb) ==
    IF isStall THEN
        PipeAdvance(g, L, mods, L.if_id, NopIdEx, next_ex_mem, next_mem_wb,
                    TRUE, FALSE)
    ELSE IF g.pc \div 4 < Len(program) THEN
        PipeFetched(Fetch(g, program), L, mods, next_id_ex, next_ex_mem,
                    next_mem_wb)
    ELSE
        PipeAdvance(g, L, mods, NopIfId, next_id_ex, next_ex_mem,
                    next_mem_wb, FALSE, FALSE)

\* the tick from the hazard test on; decoded_if is IF/ID's decoded dict
PipeHazard(g, L, program, mods, decoded_if, next_ex_mem, next_mem_wb) ==
    IF L.if_id.nop THEN
        PipeFetch(g, L, program, mods, FALSE, NopIdEx, next_ex_mem,
                  next_mem_wb)
    ELSE IF Raised(decoded_if) THEN PipeCrash(g, L, mods)
    ELSE
        PipeFetch(g, L, program, mods, LoadUse(L.if_id, L.id_ex, decoded_if),
                  [nop |-> FALSE, decoded |-> decoded_if,
                   signals |-> ControlUnit(decoded_if), pc |-> L.if_id.pc],
                  next_ex_mem, next_mem_wb)

\* a Decode stage that turns IF/ID into a bubble when the branch was taken
PipeDecode_Flush(e, L, program, mods, next_mem_wb) ==
    IF Raised(e) THEN PipeCrash(e.g, L, mods)
    ELSE
        PipeHazard(e.g,
                   IF ~L.id_ex.nop /\ L.id_ex.signals.Branch = 1
                      /\ e.g.alu_zero = 1
                   THEN [L EXCEPT !.if_id = NopIfId] ELSE L,
                   program, mods,
                   IF L.if_id.nop THEN KeyError ELSE Decode(L.if_id.instr),
                   IF L.id_ex.nop THEN NopExMem
                   ELSE [nop |-> FALSE, alu_res |-> e.alu_result,
                         decoded |-> L.id_ex.decoded,
                         signals |-> L.id_ex.signals, pc |-> L.id_ex.pc],
                   next_mem_wb)

\* the tick from the Decode stage on; e is what the Execute stage returned
PipeDecode(e, L, program, mods, next_mem_wb) ==
    IF Raised(e) THEN PipeCrash(e.g, L, mods)
    ELSE
        PipeHazard(e.g, L, program, mods,
                   IF L.if_id.nop THEN KeyError ELSE Decode(L.if_id.instr),
                   IF L.id_ex.nop THEN NopExMem
                   ELSE [nop |-> FALSE, alu_res |-> e.alu_result,
                         decoded |-> L.id_ex.decoded,
                         signals |-> L.id_ex.signals, pc |-> L.id_ex.pc],
                   next_mem_wb)

\* the tick from the Execute stage on; m is what the Memory stage returned
PipeExecute(m, L, program, mods) ==
    PipeDecode(IF L.id_ex.nop THEN [g |-> m.g, alu_result |-> None]
               ELSE Execute(m.g, L.id_ex.decoded, L.id_ex.signals),
               L, program, mods,
               IF L.ex_mem.nop THEN NopMemWb
               ELSE [nop |-> FALSE, alu_res |-> L.ex_mem.alu_res,
                     mem_data |-> m.data, decoded |-> L.ex_mem.decoded,
                     signals |-> L.ex_mem.signals, pc |-> L.ex_mem.pc])

\* the tick from the Memory stage on; wb is what the Writeback stage returned
PipeMem(wb, L, program) ==
    PipeExecute(IF L.ex_mem.nop THEN [g |-> wb.g, data |-> None]
                ELSE Mem(wb.g, L.ex_mem.alu_res, L.ex_mem.decoded,
                         L.ex_mem.signals),
                L, program, wb.modifications)

\* the tick from the Writeback stage on
PipeWriteback(g0, L, program) ==
    PipeMem(IF L.mem_wb.nop THEN [g |-> g0, modifications |-> <<>>]
            ELSE pipeline_Writeback(g0, L.mem_wb.decoded, L.mem_wb.signals,
                                    L.mem_wb.alu_res, L.mem_wb.mem_data),
            L, program)

\* one iteration of the while loop of run_pipelined; L holds the four latches
PipeIteration(g, L, program) == PipeWriteback(Tick(g), L, program)

\* ------------------------------------------------------------------------
\* Programs: the lines of the program file, as 32-character bit strings
\* ------------------------------------------------------------------------
\* v as a w-bit two's-complement bit string, most significant bit first
IntToBits(v, w) == [i \in 1..w |-> ((v % Pow2(w)) \div Pow2(w - i)) % 2]

\* the RV32I encodings (bit 0 of the string is the word's bit 31)
EncR(funct7, rs2, rs1, funct3, rd, opcode) ==
    funct7 \o IntToBits(rs2, 5) \o IntToBits(rs1, 5) \o funct3
    \o IntToBits(rd, 5) \o opcode
EncI(imm, rs1, funct3, rd, opcode) ==
    IntToBits(imm, 12) \o IntToBits(rs1, 5) \o funct3
    \o IntToBits(rd, 5) \o opcode
EncS(imm, rs2, rs1, funct3) ==
    LET i == IntToBits(imm, 12)
    IN  SubSeq(i, 1, 7) \o IntToBits(rs2, 5) \o IntToBits(rs1, 5) \o funct3
        \o SubSeq(i, 8, 12) \o <<0,1,0,0,0,1,1>>
EncSB(imm, rs2, rs1, funct3) ==
    LET i == IntToBits(imm, 13)
    IN  <<i[1]>> \o SubSeq(i, 3, 8) \o IntToBits(rs2, 5) \o IntToBits(rs1, 5)
        \o funct3 \o SubSeq(i, 9, 12) \o <<i[2]>> \o <<1,1,0,0,0,1,1>>
EncUJ(imm, rd) ==
    LET i == IntToBits(imm, 21)
    IN  <<i[1]>> \o SubSeq(i, 11, 20) \o <<i[10]>> \o SubSeq(i, 2, 9)
        \o IntToBits(rd, 5) \o <<1,1,0,1,1,1,1>>

OpR == <<0,1,1,0,0,1,1>>
OpLoad == <<0,0,0,0,0,1,1>>
OpImm == <<0,0,1,0,0,1,1>>
OpJalr == <<1,1,0,0,1,1,1>>

ADD(rd, rs1, rs2)  == EncR(<<0,0,0,0,0,0,0>>, rs2, rs1, <<0,0,0>>, rd, OpR)
SUB(rd, rs1, rs2)  == EncR(<<0,1,0,0,0,0,0>>, rs2, rs1, <<0,0,0>>, rd, OpR)
AND(rd, rs1, rs2)  == EncR(<<0,0,0,0,0,0,0>>, rs2, rs1, <<1,1,1>>, rd, OpR)
OR(rd, rs1, rs2)   == EncR(<<0,0,0,0,0,0,0>>, rs2, rs1, <<1,1,0>>, rd, OpR)
SLL(rd, rs1, rs2)  == EncR(<<0,0,0,0,0,0,0>>, rs2, rs1, <<0,0,1>>, rd, OpR)
ADDI(rd, rs1, imm) == EncI(imm, rs1, <<0,0,0>>, rd, OpImm)
ANDI(rd, rs1, imm) == EncI(imm, rs1, <<1,1,1>>, rd, OpImm)
ORI(rd, rs1, imm)  == EncI(imm, rs1, <<1,1,0>>, rd, OpImm)
LW(rd, imm, rs1)   == EncI(imm, rs1, <<0,1,0>>, rd, OpLoad)
LB(rd, imm, rs1)   == EncI(imm, rs1, <<0,0,0>>, rd, OpLoad)
JALR(rd, rs1, imm) == EncI(imm, rs1, <<0,0,0>>, rd, OpJalr)
SW(rs2, imm, rs1)  == EncS(imm, rs2, rs1, <<0,1,0>>)
SB(rs2, imm, rs1)  == EncS(imm, rs2, rs1, <<0,0,0>>)
BEQ(rs1, rs2, imm) == EncSB(imm, rs2, rs1, <<0,0,0>>)
BNE(rs1, rs2, imm) == EncSB(imm, rs2, rs1, <<0,0,1>>)
JAL(rd, imm)       == EncUJ(imm, rd)
\* a word whose opcode is in no table
BADWORD            == [i \in 1..32 |-> 0]

\* the instructions the generated programs are made of
Pool ==
    { ADDI(1, 0, 5),   ADD(3, 1, 2),    SUB(0, 1, 2),    OR(6, 1, 2),
      ANDI(7, 10, -16), LW(2, 80, 1),   LW(0, 80, 1),    LW(1, -8, 0),
      SW(3, 0, 0),     SW(2, 200, 0),   BEQ(1, 2, 4),    BEQ(0, 0, -4),
      JAL(1, 8),       JAL(0, 6),       JALR(0, 1, 0),   BNE(1, 2, 8) }

\* the end-to-end scenario of the specification
ProgScenario ==
    << ADDI(1, 0, 5), ADDI(2, 0, 10), ADD(3, 1, 2), SW(3, 0, 0), LW(4, 0, 0) >>

\* a load immediately followed by a use of the loaded register
LoadUseOffsets == {0, 80, 84}
ProgLoadUse(off) == << LW(2, off, 1), ADD(3, 2, 2) >>

Fixed ==
    { ProgScenario, <<BADWORD>>, << AND(8, 10, 1), ORI(9, 2, 8), SLL(1, 1, 2) >>,
      << LB(1, 0, 0) >>, << SB(1, 0, 0) >>, << BEQ(0, 0, -12) >>,
      << LW(2, 200, 0), SW(1, -4, 0), ADD(3, 1, 2) >>,
      << JALR(1, 1, 5) >>, << SW(2, 8, 0) >> }
    \cup { ProgLoadUse(off) : off \in LoadUseOffsets }

RECURSIVE SeqsUpTo(_, _)
SeqsUpTo(S, n) ==
    IF n = 0 THEN { <<>> }
    ELSE LET shorter == SeqsUpTo(S, n - 1)
         IN  shorter \cup { Append(q, x) : q \in shorter, x \in S }

Programs == SeqsUpTo(Pool, MaxLen) \cup Fixed

\* ------------------------------------------------------------------------
\* State
\* ------------------------------------------------------------------------
VARIABLES
    program,            \* the lines read from the program file
    mode,               \* "s" or "p": the answer to the mode prompt
    sample,             \* the file name ends with "sample_part1.txt"
    phase,              \* "start", "run", "done", "crashed", "rejected"
    pc, next_pc, branch_target, total_clock_cycles, alu_zero,
    rf, d_mem, current_instr_pc,
    if_id, id_ex, ex_mem, mem_wb,   \* the latches of run_pipelined
    stall,              \* the stall flag of the last tick
    modifications,      \* the lines of the last report printed
    stalls, fetched, retired,       \* counts of stall ticks, fetches, write-backs
    fetch_log, wb_log,  \* the addresses fetched and written back, in order
    t_in, t_out, t_done \* a pure function's input, its result, "applied"

vars == << program, mode, sample, phase, pc, next_pc, branch_target,
           total_clock_cycles, alu_zero, rf, d_mem, current_instr_pc,
           if_id, id_ex, ex_mem, mem_wb, stall, modifications,
           stalls, fetched, retired, fetch_log, wb_log, t_in, t_out, t_done >>

\* the variables of the pure-function runs, and the two histories
tvars == << t_in, t_out, t_done >>
logs == << fetch_log, wb_log >>

Regs == 0..31
Words == 0..(MemSize - 1)

ZeroRf == [r \in Regs |-> 0]
ZeroMem == [w \in Words |-> 0]
\* the initial values set for sample_part1.txt
SampleRf ==
    [r \in Regs |-> CASE r = 1 -> 32 [] r = 2 -> 5 [] r = 10 -> 112
                      [] r = 11 -> 4 [] OTHER -> 0]
SampleMem == [w \in Words |-> CASE w = 28 -> 5 [] w = 29 -> 16 [] OTHER -> 0]

\* the module's globals as one record, and their assignment
G == [pc |-> pc, next_pc |-> next_pc, branch_target |-> branch_target,
      total_clock_cycles |-> total_clock_cycles, alu_zero |-> alu_zero,
      rf |-> rf, d_mem |-> d_mem, current_instr_pc |-> current_instr_pc]

SetG(g) ==
    /\ pc' = g.pc
    /\ next_pc' = g.next_pc
    /\ branch_target' = g.branch_target
    /\ total_clock_cycles' = g.total_clock_cycles
    /\ alu_zero' = g.alu_zero
    /\ rf' = g.rf
    /\ d_mem' = g.d_mem
    /\ current_instr_pc' = g.current_instr_pc

Latches == [if_id |-> if_id, id_ex |-> id_ex, ex_mem |-> ex_mem,
            mem_wb |-> mem_wb]

Init ==
    /\ program \in Programs
    /\ mode \in {"s", "p"}
    /\ sample \in BOOLEAN
    /\ phase = "start"
    /\ pc = 0 /\ next_pc = 0 /\ branch_target = 0
    /\ total_clock_cycles = 0 /\ alu_zero = 0
    /\ rf = ZeroRf /\ d_mem = ZeroMem /\ current_instr_pc = 0
    /\ if_id = NopIfId /\ id_ex = NopIdEx
    /\ ex_mem = NopExMem /\ mem_wb = NopMemWb
    /\ stall = FALSE /\ modifications = <<>>
    /\ stalls = 0 /\ fetched = 0 /\ retired = 0
    /\ fetch_log = <<>> /\ wb_log = <<>>
    /\ t_in = None /\ t_out = None /\ t_done = FALSE

\* main(): single-cycle set-up
MainSetup ==
    /\ phase = "start" /\ mode = "s"
    /\ rf' = IF sample THEN SampleRf ELSE ZeroRf
    /\ d_mem' = IF sample THEN SampleMem ELSE ZeroMem
    /\ pc' = 0 /\ total_clock_cycles' = 0
    /\ phase' = "run"
    /\ UNCHANGED << program, mode, sample, next_pc, branch_target, alu_zero,
                    current_instr_pc, if_id, id_ex, ex_mem, mem_wb, stall,
                    modifications, stalls, fetched, retired, logs, tvars >>

\* run_pipelined(): set-up for sample_part1.txt
PipeSetup ==
    /\ phase = "start" /\ mode = "p" /\ sample
    /\ rf' = SampleRf /\ d_mem' = SampleMem
    /\ pc' = 0 /\ total_clock_cycles' = 0
    /\ if_id' = NopIfId /\ id_ex' = NopIdEx
    /\ ex_mem' = NopExMem /\ mem_wb' = NopMemWb
    /\ phase' = "run"
    /\ UNCHANGED << program, mode, sample, next_pc, branch_target, alu_zero,
                    current_instr_pc, stall, modifications, stalls, fetched,
                    retired, logs, tvars >>

\* run_pipelined(): any other file name is refused
PipeReject ==
    /\ phase = "start" /\ mode = "p" /\ ~sample
    /\ rf' = ZeroRf /\ d_mem' = ZeroMem
    /\ pc' = 0 /\ total_clock_cycles' = 0
    /\ phase' = "rejected"
    /\ UNCHANGED << program, mode, sample, next_pc, branch_target, alu_zero,
                    current_instr_pc, if_id, id_ex, ex_mem, mem_wb, stall,
                    modifications, stalls, fetched, retired, logs, tvars >>

\* the state an iteration of the single-cycle loop leaves
SingleResult(r) ==
    /\ SetG(r.g)
    /\ phase' = IF r.status = "ok" THEN "run" ELSE "crashed"
    /\ modifications' = IF r.status = "ok" THEN r.modifications
                        ELSE modifications
    /\ fetched' = fetched + 1
    /\ retired' = IF r.status = "ok" THEN retired + 1 ELSE retired
    /\ fetch_log' = Append(fetch_log, pc)
    /\ wb_log' = IF r.status = "ok" THEN Append(wb_log, pc) ELSE wb_log

\* main(): one iteration of the single-cycle loop
SingleCycle ==
    /\ phase = "run" /\ mode = "s"
    /\ pc \div 4 < Len(program)
    /\ total_clock_cycles < MaxCycles
    /\ SingleResult(SingleIteration(G, program))
    /\ UNCHANGED << program, mode, sample, if_id, id_ex, ex_mem, mem_wb,
                    stall, stalls, tvars >>

\* main(): the loop ends, "program terminated"
SingleExit ==
    /\ phase = "run" /\ mode = "s"
    /\ ~(pc \div 4 < Len(program))
    /\ phase' = "done"
    /\ UNCHANGED << program, mode, sample, pc, next_pc, branch_target,
                    total_clock_cycles, alu_zero, rf, d_mem, current_instr_pc,
                    if_id, id_ex, ex_mem, mem_wb, stall, modifications,
                    stalls, fetched, retired, logs, tvars >>

\* the state a tick of the clock loop leaves
PipeResult(r) ==
    /\ SetG(r.g)
    /\ if_id' = r.L.if_id /\ id_ex' = r.L.id_ex
    /\ ex_mem' = r.L.ex_mem /\ mem_wb' = r.L.mem_wb
    /\ phase' = IF r.status = "ok" THEN "run" ELSE "crashed"
    /\ stall' = r.stall
    /\ modifications' = r.modifications
    /\ stalls' = IF r.stall THEN stalls + 1 ELSE stalls
    /\ fetched' = IF r.fetched THEN fetched + 1 ELSE fetched
    /\ retired' = IF r.retired THEN retired + 1 ELSE retired
    /\ fetch_log' = IF r.fetched THEN Append(fetch_log, r.L.if_id.pc)
                    ELSE fetch_log
    /\ wb_log' = IF r.retired THEN Append(wb_log, mem_wb.pc) ELSE wb_log

\* run_pipelined(): one tick of the clock loop
PipeTick ==
    /\ phase = "run" /\ mode = "p"
    /\ PipeBusy(G, Latches, program)
    /\ total_clock_cycles < MaxCycles
    /\ PipeResult(PipeIteration(G, Latches, program))
    /\ UNCHANGED << program, mode, sample, tvars >>

\* run_pipelined(): the loop ends, "program terminated!"
PipeExit ==
    /\ phase = "run" /\ mode = "p"
    /\ ~PipeBusy(G, Latches, program)
    /\ phase' = "done"
    /\ UNCHANGED << program, mode, sample, pc, next_pc, branch_target,
                    total_clock_cycles, alu_zero, rf, d_mem, current_instr_pc,
                    if_id, id_ex, ex_mem, mem_wb, stall, modifications,
                    stalls, fetched, retired, logs, tvars >>

Next ==
    \/ MainSetup
    \/ PipeSetup
    \/ PipeReject
    \/ SingleCycle
    \/ SingleExit
    \/ PipeTick
    \/ PipeExit

Spec == Init /\ [][Next]_vars

\* ------------------------------------------------------------------------
\* sign_extend and Decode applied to drawn inputs
\* ------------------------------------------------------------------------
\* half-width of the windows of immediates drawn at the lowest value,
\* around zero and at the highest value of a field
ImmSpan == 3

\* the widths sign_extend is called with
Widths == {12, 13, 21}

\* the bit patterns 1010... and 0101... of width w, as signed values
AltHigh(w) == BinToInt([i \in 1..w |-> i % 2]) - Pow2(w)
AltLow(w) == BinToInt([i \in 1..w |-> (i + 1) % 2])

\* the immediates drawn for a w-bit field
ImmSample(w) ==
    ((-Pow2(w - 1))..(-Pow2(w - 1) + ImmSpan))
    \cup ((-ImmSpan)..ImmSpan)
    \cup ((Pow2(w - 1) - 1 - ImmSpan)..(Pow2(w - 1) - 1))
    \cup { Pow2(k) : k \in 0..(w - 2) }
    \cup { -Pow2(k) : k \in 0..(w - 1) }
    \cup { Pow2(k) - 1 : k \in 0..(w - 1) }
    \cup { AltHigh(w), AltLow(w) }

\* the register indices drawn: every bit of the 5-bit field both set and clear
RegSample == {0, 1, 10, 21, 31}

\* the format of each supported mnemonic
FormatOf(mnemonic) ==
    CASE mnemonic \in {"add", "sub", "and", "or"} -> "R"
      [] mnemonic \in {"addi", "andi", "ori", "lw", "jalr"} -> "I"
      [] mnemonic = "sw" -> "S"
      [] mnemonic = "beq" -> "SB"
      [] mnemonic = "jal" -> "UJ"

\* the 32-bit word that encodes an instruction
Encode(mnemonic, rs1, rs2, rd, imm) ==
    CASE mnemonic = "add" -> ADD(rd, rs1, rs2)
      [] mnemonic = "sub" -> SUB(rd, rs1, rs2)
      [] mnemonic = "and" -> AND(rd, rs1, rs2)
      [] mnemonic = "or" -> OR(rd, rs1, rs2)
      [] mnemonic = "addi" -> ADDI(rd, rs1, imm)
      [] mnemonic = "andi" -> ANDI(rd, rs1, imm)
      [] mnemonic = "ori" -> ORI(rd, rs1, imm)
      [] mnemonic = "lw" -> LW(rd, imm, rs1)
      [] mnemonic = "jalr" -> JALR(rd, rs1, imm)
      [] mnemonic = "sw" -> SW(rs2, imm, rs1)
      [] mnemonic = "beq" -> BEQ(rs1, rs2, imm)
      [] mnemonic = "jal" -> JAL(rd, imm)

\* widest field whose whole signed range is drawn
FullWidth == 13

\* the values drawn for sign_extend at width w
SignExtendValues(w) ==
    IF w <= FullWidth THEN (-Pow2(w - 1))..(Pow2(w - 1) - 1)
    ELSE ImmSample(w)

SignExtendInputs ==
    UNION { { [kind |-> "sign_extend", w |-> w, v |-> v,
               bits |-> IntToBits(v, w)] : v \in SignExtendValues(w) } :
            w \in Widths }

DecodeInput(mnemonic, rs1, rs2, rd, imm) ==
    [kind |-> "Decode", mnemonic |-> mnemonic, rs1 |-> rs1, rs2 |-> rs2,
     rd |-> rd, imm |-> imm,
     word |-> Encode(mnemonic, rs1, rs2, rd, imm)]

DecodeInputs ==
    { DecodeInput(m, rs1, rs2, rd, 0) :
        m \in {"add", "sub", "and", "or"},
        rs1 \in RegSample, rs2 \in RegSample, rd \in RegSample }
    \cup { DecodeInput(m, rs1, 0, rd, imm) :
        m \in {"addi", "andi", "ori", "lw", "jalr"},
        rs1 \in RegSample, rd \in RegSample, imm \in ImmSample(12) }
    \cup { DecodeInput("sw", rs1, rs2, 0, imm) :
        rs1 \in RegSample, rs2 \in RegSample, imm \in ImmSample(12) }
    \cup { DecodeInput("beq", rs1, rs2, 0, imm) :
        rs1 \in RegSample, rs2 \in RegSample,
        imm \in { i \in ImmSample(13) : i % 2 = 0 } }
    \cup { DecodeInput("jal", 0, 0, rd, imm) :
        rd \in RegSample, imm \in { i \in ImmSample(21) : i % 2 = 0 } }

\* no program is loaded while a function is applied on its own
DecodeInit ==
    /\ program = <<>> /\ mode = "s" /\ sample = FALSE /\ phase = "start"
    /\ pc = 0 /\ next_pc = 0 /\ branch_target = 0
    /\ total_clock_cycles = 0 /\ alu_zero = 0
    /\ rf = ZeroRf /\ d_mem = ZeroMem /\ current_instr_pc = 0
    /\ if_id = NopIfId /\ id_ex = NopIdEx
    /\ ex_mem = NopExMem /\ mem_wb = NopMemWb
    /\ stall = FALSE /\ modifications = <<>>
    /\ stalls = 0 /\ fetched = 0 /\ retired = 0
    /\ fetch_log = <<>> /\ wb_log = <<>>
    /\ t_in \in SignExtendInputs \cup DecodeInputs
    /\ t_out = None /\ t_done = FALSE

\* nothing of the machine changes when a function is applied on its own
MachineUnchanged ==
    UNCHANGED << program, mode, sample, phase, pc, next_pc, branch_target,
                 total_clock_cycles, alu_zero, rf, d_mem, current_instr_pc,
                 if_id, id_ex, ex_mem, mem_wb, stall, modifications,
                 stalls, fetched, retired, logs >>

\* sign_extend(binary_string, num_bits)
ApplySignExtend ==
    /\ ~t_done /\ t_in.kind = "sign_extend"
    /\ t_out' = sign_extend(t_in.bits, t_in.w)
    /\ t_done' = TRUE
    /\ UNCHANGED t_in
    /\ MachineUnchanged

\* Decode(instruction)
ApplyDecode ==
    /\ ~t_done /\ t_in.kind = "Decode"
    /\ t_out' = Decode(t_in.word)
    /\ t_done' = TRUE
    /\ UNCHANGED t_in
    /\ MachineUnchanged

DecodeNext ==
    \/ ApplySignExtend
    \/ ApplyDecode

DecodeSpec == DecodeInit /\ [][DecodeNext]_vars

\* ------------------------------------------------------------------------
\* Properties
\* ------------------------------------------------------------------------
Supported == {"lw", "sw", "add", "addi", "sub", "and", "andi", "or", "ori",
              "beq", "jal", "jalr"}

\* the instruction the next Fetch reads, when there is one
CanFetch == PyInRange(program, pc \div 4) /\ pc \div 4 < Len(program)
CurInstr == PyIndex(program, pc \div 4)
CurIs(mnemonics) ==
    /\ CanFetch
    /\ ~Raised(Decode(CurInstr))
    /\ Decode(CurInstr).mnemonic \in mnemonics

OutOfRange(addr) == addr \div 4 < 0 \/ addr \div 4 >= MemSize

\* the globals main() starts the single-cycle loop with
SingleStart(smp) ==
    [pc |-> 0, next_pc |-> 0, branch_target |-> 0, total_clock_cycles |-> 0,
     alu_zero |-> 0, rf |-> IF smp THEN SampleRf ELSE ZeroRf,
     d_mem |-> IF smp THEN SampleMem ELSE ZeroMem, current_instr_pc |-> 0]

\* C1: a pipelined run that terminates ends with the register file and the
\* data memory the single-cycle run of the same program from the same
\* initial state ends with, whenever that run terminates too.
C1_SameFinalState ==
    (mode = "p" /\ phase = "done") =>
        LET s == RunSingle(SingleStart(sample), program, MaxCycles)
        IN  s.status = "done" => (rf = s.g.rf /\ d_mem = s.g.d_mem)

\* C2: for lw x2,off(x1); add x3,x2,x2 the pipelined run stalls exactly
\* once, with a bubble in ID/EX while the add waits in IF/ID, the add's
\* Execute computes twice the loaded word, and x3 ends as twice that word.
LoadedWord(off) == SampleMem[(SampleRf[1] + off) \div 4]
C2_LoadUseStall ==
    \A off \in LoadUseOffsets :
        (mode = "p" /\ program = ProgLoadUse(off)) =>
            /\ stall => (id_ex.nop /\ ~if_id.nop
                         /\ if_id.instr = ADD(3, 2, 2) /\ ~ex_mem.nop
                         /\ ex_mem.decoded.mnemonic = "lw")
            /\ (~ex_mem.nop /\ ex_mem.decoded.mnemonic = "add") =>
                   (stalls = 1 /\ ex_mem.alu_res = 2 * LoadedWord(off))
            /\ phase = "done" =>
                   (stalls = 1 /\ rf[3] = 2 * LoadedWord(off))
C2_Witness ==
    /\ mode = "p" /\ program = ProgLoadUse(84) /\ phase = "done"
    /\ stalls = 1 /\ rf[2] = 16 /\ rf[3] = 32

\* C3: the single-cycle run of the scenario program on a zeroed machine
\* ends with x1=5, x2=10, x3=15, x4=15, d_mem[0]=15 after 5 cycles.
C3_Scenario ==
    (mode = "s" /\ ~sample /\ program = ProgScenario /\ phase = "done") =>
        /\ rf[1] = 5 /\ rf[2] = 10 /\ rf[3] = 15 /\ rf[4] = 15
        /\ d_mem[0] = 15
        /\ total_clock_cycles = 5
C3_Witness ==
    /\ mode = "s" /\ ~sample /\ program = ProgScenario /\ phase = "done"
    /\ retired = 5 /\ rf[4] = 15

\* C4: register 0 holds 0 in every state of either mode.
C4_ZeroRegister == rf[0] = 0
\* a write-back of an instruction with rd = 0 and a non-zero result
C4_Witness ==
    /\ mode = "p" /\ program = << SUB(0, 1, 2), LW(0, 80, 1) >>
    /\ phase = "done" /\ retired = 2 /\ rf[0] = 0

\* C5: a single-cycle beq fetched at A leaves pc = A + 4 + (imm << 1) when
\* its two source registers are equal and pc = A + 4 when they differ.
C5_BeqTarget ==
    [][ (mode = "s" /\ phase = "run" /\ CurIs({"beq"})) =>
            LET d == Decode(CurInstr)
            IN  pc' = IF rf[d.rs1] = rf[d.rs2] THEN pc + 4 + d.imm * 2
                      ELSE pc + 4 ]_vars
C5_Witness ==
    /\ mode = "s" /\ ~sample /\ program = << BEQ(1, 2, 4) >>
    /\ retired = 1 /\ pc = 12 /\ current_instr_pc = 0

\* C6: a lw or sw whose word index is outside 0..31 leaves data memory
\* unchanged; the lw delivers 0 to rd and no other register changes, and
\* the single-cycle run goes on with the next instruction.
C6_OutOfRangeAccess ==
    [][ /\ (mode = "s" /\ phase = "run" /\ CurIs({"lw", "sw"})) =>
            LET d == Decode(CurInstr)
            IN  OutOfRange(rf[d.rs1] + d.imm) =>
                  /\ d_mem' = d_mem
                  /\ rf' = IF d.mnemonic = "lw" /\ d.rd # 0
                           THEN [rf EXCEPT ![d.rd] = 0] ELSE rf
                  /\ phase' = "run" /\ pc' = pc + 4
        /\ (mode = "p" /\ phase = "run" /\ ~ex_mem.nop) =>
            ((ex_mem.decoded.mnemonic \in {"lw", "sw"}
              /\ OutOfRange(ex_mem.alu_res)) =>
                  /\ d_mem' = d_mem
                  /\ (phase' = "run" /\ ex_mem.decoded.mnemonic = "lw") =>
                         mem_wb'.mem_data = 0)
        /\ (mode = "p" /\ phase = "run" /\ ~mem_wb.nop) =>
            ((mem_wb.decoded.mnemonic = "lw" /\ mem_wb.decoded.rd # 0
              /\ OutOfRange(mem_wb.alu_res)) => rf'[mem_wb.decoded.rd] = 0)
      ]_vars
C6_Witness ==
    /\ mode = "s" /\ sample
    /\ program = << LW(2, 200, 0), SW(1, -4, 0), ADD(3, 1, 2) >>
    /\ phase = "done" /\ rf[2] = 0 /\ rf[3] = 32 /\ d_mem = SampleMem

\* C7: pc is a multiple of 4 in every state of either mode.
C7_PcAligned == pc % 4 = 0

\* C8: the pipelined loop exits exactly when the four latches are empty and
\* pc/4 has reached the program length, and by then every fetched
\* instruction has been written back.
Drained ==
    /\ if_id.nop /\ id_ex.nop /\ ex_mem.nop /\ mem_wb.nop
    /\ pc \div 4 >= Len(program)
C8_ExitWhenDrained ==
    /\ []((mode = "p" /\ phase = "done") => (Drained /\ retired = fetched))
    /\ [][ (mode = "p" /\ phase = "run") =>
               /\ phase' = "done" => Drained
               /\ Drained => phase' \in {"done", "run"}
               /\ (Drained /\ phase' = "run") => UNCHANGED vars ]_vars
C8_Witness ==
    /\ mode = "p" /\ phase = "done" /\ Len(program) = 2
    /\ fetched = 2 /\ retired = 2 /\ total_clock_cycles = 6

\* C9: total_clock_cycles never decreases; in single-cycle mode it equals
\* the number of instructions retired; in pipelined mode every iteration of
\* the clock loop, stall ticks included, adds exactly 1.
C9_CycleCounter ==
    /\ [](mode = "s" => total_clock_cycles = retired)
    /\ [][ /\ total_clock_cycles' >= total_clock_cycles
           /\ (mode = "s" /\ phase = "run" /\ phase' = "run") =>
                  total_clock_cycles' = total_clock_cycles + 1
           /\ (mode = "p" /\ phase = "run" /\ phase' # "done") =>
                  total_clock_cycles' = total_clock_cycles + 1 ]_vars
C9_Witness ==
    /\ mode = "p" /\ phase = "run" /\ stall /\ stalls = 1
    /\ retired = 0 /\ total_clock_cycles = 3

\* C10: the control unit gives every supported mnemonic one complete signal
\* vector, ALUControl included, and gives an error, never the default
\* all-zero vector, for a mnemonic outside the supported set.
C10_ControlUnitTotal ==
    ~id_ex.nop =>
        IF id_ex.decoded.mnemonic \in Supported
        THEN DOMAIN id_ex.signals =
                 {"RegWrite", "MemRead", "MemWrite", "ALUSrc", "Branch",
                  "MemToReg", "ALUControl"}
        ELSE Raised(id_ex.signals)

\* C11: for the widths 12, 13 and 21 and a value v of the width's signed
\* range, sign_extend of v's two's-complement bit string (most significant
\* bit first) is v.
C11_SignExtendRoundTrip ==
    (t_done /\ t_in.kind = "sign_extend") => t_out = t_in.v
C11_Witness ==
    /\ t_done /\ t_in.kind = "sign_extend"
    /\ t_in.w = 21 /\ t_in.v = -Pow2(20) /\ t_out = -1048576

\* C12: Decode of the word that encodes a supported mnemonic with its
\* registers and immediate returns that mnemonic and those fields, for the
\* five formats (the SB and UJ immediates are even).
C12_DecodeInvertsEncode ==
    (t_done /\ t_in.kind = "Decode") =>
        /\ ~Raised(t_out)
        /\ t_out.mnemonic = t_in.mnemonic
        /\ FormatOf(t_in.mnemonic) \in {"R", "I", "S", "SB"} =>
               ("rs1" \in DOMAIN t_out /\ t_out.rs1 = t_in.rs1)
        /\ FormatOf(t_in.mnemonic) \in {"R", "S", "SB"} =>
               ("rs2" \in DOMAIN t_out /\ t_out.rs2 = t_in.rs2)
        /\ FormatOf(t_in.mnemonic) \in {"R", "I", "UJ"} =>
               ("rd" \in DOMAIN t_out /\ t_out.rd = t_in.rd)
        /\ FormatOf(t_in.mnemonic) \in {"I", "S", "SB", "UJ"} =>
               t_out.imm = t_in.imm
C12_Witness ==
    /\ t_done /\ t_in.kind = "Decode" /\ t_in.mnemonic = "beq"
    /\ t_in.rs1 = 21 /\ t_in.rs2 = 10 /\ t_in.imm = -4096
    /\ ~Raised(t_out) /\ t_out.mnemonic = "beq"
    /\ t_out.rs1 = 21 /\ t_out.rs2 = 10 /\ t_out.imm = -4096

\* a tick of the pipelined clock loop
IsTick ==
    mode = "p" /\ phase = "run"
    /\ total_clock_cycles' = total_clock_cycles + 1

\* ID/EX holds a load and IF/ID an instruction that reads the load's rd
HazardAtStart ==
    /\ ~id_ex.nop /\ id_ex.signals.MemRead = 1
    /\ ~if_id.nop
    /\ LET d == Decode(if_id.instr)
       IN  /\ ~Raised(d)
           /\ \/ "rs1" \in DOMAIN d /\ d.rs1 = id_ex.decoded.rd
              \/ "rs2" \in DOMAIN d /\ d.rs2 = id_ex.decoded.rd

\* C13: a pipelined tick is a stall tick exactly when at its start ID/EX
\* holds an instruction with MemRead = 1 and IF/ID holds an instruction one
\* of whose source registers is that instruction's rd.
C13_StallIff ==
    [][ IsTick => (stall' <=> HazardAtStart) ]_vars
C13_Witness ==
    /\ mode = "p" /\ program = << LW(2, 80, 1), ADD(3, 1, 2) >>
    /\ stall /\ stalls = 1 /\ total_clock_cycles = 3
    /\ id_ex.nop /\ ~if_id.nop /\ if_id.instr = ADD(3, 1, 2)

\* C14: a stall tick leaves IF/ID as it was, puts a bubble in ID/EX,
\* fetches nothing and leaves pc as it was; the tick after a stall tick is
\* not a stall tick.
C14_StallFreezes ==
    /\ [][ (IsTick /\ stall') =>
               /\ if_id' = if_id
               /\ id_ex' = NopIdEx
               /\ fetched' = fetched /\ fetch_log' = fetch_log
               /\ pc' = pc ]_vars
    /\ [][ (IsTick /\ stall) => ~stall' ]_vars
C14_Witness ==
    /\ mode = "p" /\ program = ProgLoadUse(0) /\ phase = "run"
    /\ stalls = 1 /\ ~stall /\ total_clock_cycles = 4
    /\ ~id_ex.nop /\ id_ex.decoded.mnemonic = "add" /\ if_id.nop
    /\ fetched = 2 /\ pc = 8

\* the fetch addresses of the instructions in the latches, oldest first
InFlight ==
    (IF mem_wb.nop THEN <<>> ELSE << mem_wb.pc >>)
    \o (IF ex_mem.nop THEN <<>> ELSE << ex_mem.pc >>)
    \o (IF id_ex.nop THEN <<>> ELSE << id_ex.pc >>)
    \o (IF if_id.nop THEN <<>> ELSE << if_id.pc >>)

\* C15: a pipelined tick moves EX/MEM's instruction to MEM/WB, ID/EX's to
\* EX/MEM and IF/ID's to ID/EX (a bubble on a stall, IF/ID then held); the
\* instructions fetched are, in fetch order, those written back followed by
\* those in the latches, so none is skipped, duplicated or dropped.
C15_LatchesAdvance ==
    /\ [][ (IsTick /\ phase' = "run") =>
               /\ mem_wb'.nop = ex_mem.nop
               /\ ~ex_mem.nop =>
                      /\ mem_wb'.decoded = ex_mem.decoded
                      /\ mem_wb'.signals = ex_mem.signals
                      /\ mem_wb'.alu_res = ex_mem.alu_res
                      /\ mem_wb'.pc = ex_mem.pc
               /\ ex_mem'.nop = id_ex.nop
               /\ ~id_ex.nop =>
                      /\ ex_mem'.decoded = id_ex.decoded
                      /\ ex_mem'.signals = id_ex.signals
                      /\ ex_mem'.pc = id_ex.pc
               /\ IF stall' THEN id_ex'.nop /\ if_id' = if_id
                  ELSE /\ id_ex'.nop = if_id.nop
                       /\ ~if_id.nop =>
                              /\ id_ex'.decoded = Decode(if_id.instr)
                              /\ id_ex'.pc = if_id.pc ]_vars
    /\ [](( mode = "p" /\ phase \in {"run", "done"}) =>
              fetch_log = wb_log \o InFlight)
C15_Witness ==
    /\ mode = "p" /\ program = ProgScenario /\ phase = "done"
    /\ fetch_log = << 0, 4, 8, 12, 16 >> /\ wb_log = fetch_log
    /\ retired = 5 /\ total_clock_cycles = 9

\* a tick in whose Execute stage a beq is taken
TakenBeqTick ==
    /\ IsTick /\ ~id_ex.nop /\ id_ex.decoded.mnemonic = "beq"
    /\ alu_zero' = 1

\* C16: a pipelined beq taken in Execute, fetched at A and carried through
\* the latches with A, redirects pc to A + 4 + (imm << 1), and a pipelined
\* jal fetched at A redirects pc to A + imm.
C16_OwnAddressTarget ==
    [][ /\ TakenBeqTick =>
               branch_target' = id_ex.pc + 4 + id_ex.decoded.imm * 2
        /\ (IsTick /\ ~id_ex.nop /\ id_ex.decoded.mnemonic = "jal") =>
               branch_target' = id_ex.pc + id_ex.decoded.imm ]_vars

\* C17: when a pipelined beq is taken in Execute, the instruction in IF/ID
\* at the start of the tick is in ID/EX at its end, and an instruction
\* fetched in that tick is the one at the redirected pc.
C17_NoFlush ==
    [][ (TakenBeqTick /\ phase' = "run") =>
            /\ ~if_id.nop =>
                   /\ ~id_ex'.nop
                   /\ id_ex'.pc = if_id.pc
                   /\ id_ex'.decoded = Decode(if_id.instr)
            /\ IF branch_target' \div 4 < Len(program)
               THEN /\ ~if_id'.nop
                    /\ if_id'.pc = branch_target'
                    /\ if_id'.instr = PyIndex(program, branch_target' \div 4)
                    /\ fetch_log' = Append(fetch_log, branch_target')
               ELSE if_id'.nop /\ fetch_log' = fetch_log ]_vars
C17_Witness ==
    /\ mode = "p" /\ program = << BEQ(0, 0, -4), ADDI(1, 0, 5) >>
    /\ total_clock_cycles = 6 /\ rf[1] = 5
    /\ SubSeq(wb_log, 1, 2) = << 0, 4 >>
    /\ SubSeq(fetch_log, 1, 3) = << 0, 4, 0 >>

\* an iteration of the single-cycle loop on the instruction at pc
SingleStep(mnemonics) ==
    mode = "s" /\ phase = "run" /\ CurIs(mnemonics)
    /\ total_clock_cycles' = total_clock_cycles + 1

\* C18: a single-cycle jal fetched at A leaves pc = A + imm, a jalr leaves
\* pc = rf[rs1] + imm with bit 0 cleared (rf[rs1] as it was before the
\* instruction); rf[rd] becomes A + 4 when rd is not 0, and no other
\* register and no memory word changes.
C18_JumpAndLink ==
    [][ SingleStep({"jal", "jalr"}) =>
            LET d == Decode(CurInstr)
            IN  /\ phase' = "run"
                /\ pc' = IF d.mnemonic = "jal" THEN pc + d.imm
                         ELSE 2 * ((rf[d.rs1] + d.imm) \div 2)
                /\ rf' = IF d.rd # 0 THEN [rf EXCEPT ![d.rd] = pc + 4]
                         ELSE rf
                /\ d_mem' = d_mem ]_vars
C18_Witness ==
    /\ mode = "s" /\ sample /\ program = << JALR(1, 1, 5) >>
    /\ retired = 1 /\ pc = 36 /\ rf[1] = 4

\* C19: a single-cycle instruction changes no register but rf[rd], and
\* that only when RegWrite is set (or it is jal/jalr) and rd is not 0; sw
\* and beq change no register; only sw changes data memory, and only the
\* word (rf[rs1] + imm) / 4, which becomes rf[rs2].
C19_SingleFrame ==
    [][ SingleStep(Supported) =>
            LET d == Decode(CurInstr)
                writes == /\ \/ ControlUnit(d).RegWrite = 1
                             \/ d.mnemonic \in {"jal", "jalr"}
                          /\ "rd" \in DOMAIN d /\ d.rd # 0
            IN  /\ phase' = "run"
                /\ \A r \in Regs :
                       rf'[r] # rf[r] => (writes /\ r = d.rd)
                /\ d.mnemonic \in {"sw", "beq"} => rf' = rf
                /\ d.mnemonic # "sw" => d_mem' = d_mem
                /\ d.mnemonic = "sw" =>
                       \A w \in Words :
                           IF w = (rf[d.rs1] + d.imm) \div 4
                           THEN d_mem'[w] = rf[d.rs2]
                           ELSE d_mem'[w] = d_mem[w] ]_vars
C19_Witness ==
    /\ mode = "s" /\ sample /\ program = << SW(2, 8, 0) >>
    /\ retired = 1 /\ d_mem[2] = 5 /\ rf = SampleRf
    /\ d_mem = [SampleMem EXCEPT ![2] = 5]

\* the report has an entry of this kind for this target and value
Reported(report, kind, at, value) ==
    \E i \in 1..Len(report) :
        /\ report[i].kind = kind
        /\ report[i].at = at
        /\ report[i].value = value

\* the report tells of a store of value into data-memory word w
ReportedWord(report, w, value) ==
    \E i \in 1..Len(report) :
        /\ report[i].kind = "memory"
        /\ report[i].at \div 4 = w
        /\ report[i].value = value

\* C20: in both modes the report of a retiring instruction has an entry
\* for each register and each data-memory word the instruction wrote, with
\* the value stored, and an entry for pc.
C20_ReportComplete ==
    [][ /\ (SingleStep(Supported) /\ phase' = "run") =>
               /\ \A r \in Regs :
                      rf'[r] # rf[r] =>
                          Reported(modifications', "reg", r, rf'[r])
               /\ \A w \in Words :
                      d_mem'[w] # d_mem[w] =>
                          ReportedWord(modifications', w, d_mem'[w])
               /\ Reported(modifications', "pc", 0, pc')
        /\ (IsTick /\ ~mem_wb.nop) =>
               /\ \A r \in Regs :
                      rf'[r] # rf[r] =>
                          Reported(modifications', "reg", r, rf'[r])
               /\ (mem_wb.signals.MemWrite = 1 /\ InBounds(mem_wb.alu_res)) =>
                      ReportedWord(modifications', mem_wb.alu_res \div 4,
                                   d_mem[mem_wb.alu_res \div 4])
               /\ Reported(modifications', "pc", 0, pc) ]_vars

\* C21: once Fetch has executed, the address it last read from (Fetch
\* stores it in current_instr_pc before indexing the program) is not
\* negative and its index is below the program's length.
C21_FetchInProgram ==
    fetch_log # <<>> =>
        /\ 0 <= current_instr_pc
        /\ current_instr_pc \div 4 < Len(program)

\* every line decodes and none is a beq, jal or jalr
JumpFree(prog) ==
    \A i \in 1..Len(prog) :
        /\ ~Raised(Decode(prog[i]))
        /\ Decode(prog[i]).mnemonic \notin {"beq", "jal", "jalr"}

\* line i is a load and line i + 1 reads the load's rd
LoadUsePair(prog, i) ==
    LET a == Decode(prog[i])
        b == Decode(prog[i + 1])
    IN  /\ a.mnemonic = "lw"
        /\ \/ "rs1" \in DOMAIN b /\ b.rs1 = a.rd
           \/ "rs2" \in DOMAIN b /\ b.rs2 = a.rd

\* the number of loads immediately followed by a use of the loaded register
LoadUsePairs(prog) ==
    Cardinality({ i \in 1..(Len(prog) - 1) : LoadUsePair(prog, i) })

\* C22: the pipelined run of a program of N >= 1 lines without beq, jal
\* or jalr does not end in an exception, never takes more than N + 4 + S
\* ticks and ends after exactly N + 4 + S ticks of which S are stall ticks,
\* S being the number of load-use pairs; an empty program ends after 0 ticks.
C22_TickCount ==
    (mode = "p" /\ phase \in {"run", "done", "crashed"} /\ JumpFree(program)) =>
        IF Len(program) = 0 THEN total_clock_cycles = 0
        ELSE /\ phase # "crashed"
             /\ total_clock_cycles
                    <= Len(program) + 4 + LoadUsePairs(program)
             /\ phase = "done" =>
                    /\ total_clock_cycles
                           = Len(program) + 4 + LoadUsePairs(program)
                    /\ stalls = LoadUsePairs(program)

====
